---- MODULE Spec2Model ----
(***************************************************************************)
(* PromptForm AI: the generated script (GeneratedContent) and its three    *)
(* export renderers - the Qualtrics TXT serializer (generateQualtricsTxt), *)
(* the plain-text renderer (formatContentAsText) and the PDF layout        *)
(* (handleExportPDF).                                                      *)
(*                                                                         *)
(* Strings are TLA+ strings; a text made of lines is the sequence of its   *)
(* lines (lines.join('\n') for the TXT file, one entry per "...\n" piece   *)
(* for the clipboard text).  Optional fields of the TypeScript interfaces  *)
(* (type?, options?, isQuestionnaire?) are record fields that are present  *)
(* or absent.  Lengths of the PDF layout are in tenths of a millimetre, so *)
(* that the option line height 4.5 mm is the integer 45.                   *)
(*                                                                         *)
(* Around the renderers stands the App: the Gemini service wrappers        *)
(* (generateQuestionnaire, refineQuestionnaire), the handlers that start   *)
(* and complete their requests, and the text edit of a question.  A        *)
(* handler runs to its first await in one step; the completion of a        *)
(* request, with everything that follows the await, is another step.       *)
(***************************************************************************)
EXTENDS Integers, Sequences, FiniteSets, Bags, TLC

VARIABLES
    content,    \* App.generatedContent / OutputDisplay's content prop
    exported,   \* the export the last step made: "none", "txt", "clipboard", "pdf"
    txtFile,    \* lines of the survey.txt it downloaded
    clipboard,  \* lines of the text it copied to the clipboard
    pdfDoc,     \* what handleExportPDF drew: cursor, pages, drawn blocks
    formData,         \* App.formData: researchType and productImages
    isLoading,        \* App.isLoading
    isRefining,       \* App.isRefining
    error,            \* App.error: a message or NoError (null)
    isToneAdjusting,  \* OutputDisplay.isToneAdjusting: '' or a tone
    refinementInput,  \* OutputDisplay.refinementInput
    inFlight,         \* the bag of the service calls awaited
    lastOp,           \* the handler that ran last, with its arguments
    readers,          \* the bag of the files whose FileReader is reading
    now,              \* Date.now()
    isOpen,           \* Chatbot.isOpen
    messages,         \* Chatbot.messages
    input,            \* Chatbot.input
    chatIsLoading,    \* Chatbot.isLoading
    chatRef,          \* Chatbot.chatRef.current is a Chat (TRUE) or null
    sending,          \* the bag of the sendMessage calls awaited
    apiKey            \* process.env.API_KEY is set (TRUE) or missing

appVars == <<formData, isLoading, isRefining, error, isToneAdjusting,
             refinementInput, inFlight>>

imageVars == <<readers, now>>

chatVars == <<isOpen, messages, input, chatIsLoading, chatRef, sending,
              apiKey>>

vars == <<content, exported, txtFile, clipboard, pdfDoc, appVars, lastOp,
          imageVars, chatVars>>

(***************************************************************************)
(* Bounds of the model.                                                    *)
(***************************************************************************)
MaxQuestions == 2   \* questions in a document, over all groups
MaxSections == 1    \* core sections in a document
MaxOpts == 2        \* options of a question that has options
MaxPdfQuestions == 2     \* questions in a document laid out over pages
LongQuestionLines == 47  \* wrapped lines of a long question text
LongOptionLines == 30    \* wrapped lines of a long option text

(***************************************************************************)
(* The data model (types.ts): Question, CoreQuestionSection,               *)
(* GeneratedContent.                                                       *)
(***************************************************************************)
QuestionType == {"FreeText", "MultipleChoice", "SingleChoice", "LikertScale"}

HasType(q) == "type" \in DOMAIN q

HasOptions(q) == "options" \in DOMAIN q

IsQuestionnaire(c) == "isQuestionnaire" \in DOMAIN c /\ c.isQuestionnaire

OptionNames == <<"Agree", "Neutral", "Disagree", "Unsure">>

OptionList == [i \in 1..MaxOpts |-> OptionNames[i]]

Topic(i) == "Topic" \o ToString(i)

\* The shapes a question takes: with or without a type, options absent,
\* empty or filled.
QuestionShapes ==
    {[id |-> "", text |-> ""]}
    \cup {[id |-> "", text |-> "", type |-> t, options |-> OptionList] :
              t \in QuestionType}
    \cup {[id |-> "", text |-> "", type |-> "FreeText"],
          [id |-> "", text |-> "", type |-> "SingleChoice"],
          [id |-> "", text |-> "", type |-> "MultipleChoice", options |-> <<>>]}

\* The i-th question of a document: unique id, its own text (the text the
\* shape names, "Question " when it names none, and the number i).
MkQuestion(shape, i) ==
    [shape EXCEPT !.id = "q" \o ToString(i),
                  !.text = (IF @ = "" THEN "Question " ELSE @) \o ToString(i)]

\* Texts too long for one line of the PDF.
LongQuestionText == "Long question "

LongOptionName == "An option that runs over several lines"

\* The shapes of the questions of a paginated document: a short or a long
\* text, without options, with short options or with long options.
PdfQuestionShapes ==
    {[id |-> "", text |-> t] : t \in {"", LongQuestionText}}
    \cup {[id |-> "", text |-> t, type |-> "SingleChoice", options |-> o] :
              t \in {"", LongQuestionText},
              o \in {<<OptionNames[1], OptionNames[2]>>,
                     <<LongOptionName, LongOptionName>>}}

\* The questions of qs (numbered 1..k) that the assignment g puts in group n.
RECURSIVE GroupQuestions(_, _, _, _)
GroupQuestions(qs, g, n, i) ==
    IF i > Len(qs) THEN <<>>
    ELSE (IF g[i] = n THEN <<MkQuestion(qs[i], i)>> ELSE <<>>)
         \o GroupQuestions(qs, g, n, i + 1)

\* Groups are numbered opening = 1, core sections 2..ns+1, followUps = ns+2,
\* closing = ns+3.
MkContent(qs, g, ns, isQ) ==
    LET base == [opening   |-> GroupQuestions(qs, g, 1, 1),
                 core      |-> [s \in 1..ns |->
                                   [topic |-> Topic(s),
                                    questions |-> GroupQuestions(qs, g, s + 1, 1)]],
                 followUps |-> GroupQuestions(qs, g, ns + 2, 1),
                 closing   |-> GroupQuestions(qs, g, ns + 3, 1)]
    IN  IF isQ THEN base @@ [isQuestionnaire |-> TRUE] ELSE base

\* Assignments of k questions to the groups 1..ng that keep document order.
GroupAssignments(k, ng) ==
    {g \in [1..k -> 1..ng] : \A i, j \in 1..k : i <= j => g[i] <= g[j]}

(***************************************************************************)
(* generateQualtricsTxt (utils/qsfGenerator.ts).  The closure state of the *)
(* function is the record [lines, mcCounter, teCounter].                   *)
(***************************************************************************)
\* Mutant of OptionsOrNone: absent options are written as a line.
OptionsOrNone_Placeholder(q) ==
    IF HasOptions(q) THEN q.options ELSE <<"undefined">>

OptionsOrNone(q) == IF HasOptions(q) THEN q.options ELSE <<>>

\* Mutant of ProcessQuestion: MultipleChoice falls through to the
\* SingleChoice case and loses its [[MultipleAnswer]] line.
ProcessQuestion_NoMultipleAnswer(st, q) ==
    IF ~HasType(q) THEN st
    ELSE
      LET st1 ==
            CASE q.type \in {"SingleChoice", "LikertScale", "MultipleChoice"} ->
                   [st EXCEPT
                      !.lines = @ \o <<"MC" \o ToString(st.mcCounter) \o ". " \o q.text>>
                                  \o <<"">> \o OptionsOrNone(q),
                      !.mcCounter = @ + 1]
              [] q.type = "FreeText" ->
                   [st EXCEPT
                      !.lines = @ \o <<"TE" \o ToString(st.teCounter) \o ". " \o q.text>>,
                      !.teCounter = @ + 1]
              [] OTHER -> st
      IN  [st1 EXCEPT !.lines = @ \o <<"">>]

\* Mutant of ProcessQuestion: the early return for a question without a type
\* is missing, so the question still gets its separating blank line.
ProcessQuestion_NoEarlyReturn(st, q) ==
    LET st1 ==
          CASE HasType(q) /\ q.type \in {"SingleChoice", "LikertScale"} ->
                 [st EXCEPT
                    !.lines = @ \o <<"MC" \o ToString(st.mcCounter) \o ". " \o q.text>>
                                \o <<"">> \o OptionsOrNone(q),
                    !.mcCounter = @ + 1]
            [] HasType(q) /\ q.type = "MultipleChoice" ->
                 [st EXCEPT
                    !.lines = @ \o <<"MC" \o ToString(st.mcCounter) \o ". " \o q.text>>
                                \o <<"[[MultipleAnswer]]">>
                                \o <<"">> \o OptionsOrNone(q),
                    !.mcCounter = @ + 1]
            [] HasType(q) /\ q.type = "FreeText" ->
                 [st EXCEPT
                    !.lines = @ \o <<"TE" \o ToString(st.teCounter) \o ". " \o q.text>>,
                    !.teCounter = @ + 1]
            [] OTHER -> st
    IN  [st1 EXCEPT !.lines = @ \o <<"">>]

\* The body of questions.forEach in processQuestions: one question.
ProcessQuestion(st, q) ==
    IF ~HasType(q) THEN st
    ELSE
      LET st1 ==
            CASE q.type \in {"SingleChoice", "LikertScale"} ->
                   [st EXCEPT
                      !.lines = @ \o <<"MC" \o ToString(st.mcCounter) \o ". " \o q.text>>
                                  \o <<"">> \o OptionsOrNone(q),
                      !.mcCounter = @ + 1]
              [] q.type = "MultipleChoice" ->
                   [st EXCEPT
                      !.lines = @ \o <<"MC" \o ToString(st.mcCounter) \o ". " \o q.text>>
                                  \o <<"[[MultipleAnswer]]">>
                                  \o <<"">> \o OptionsOrNone(q),
                      !.mcCounter = @ + 1]
              [] q.type = "FreeText" ->
                   [st EXCEPT
                      !.lines = @ \o <<"TE" \o ToString(st.teCounter) \o ". " \o q.text>>,
                      !.teCounter = @ + 1]
              [] OTHER -> st
      IN  [st1 EXCEPT !.lines = @ \o <<"">>]

\* Mutant of processQuestions: the questions are taken last to first.
RECURSIVE processQuestions_Reversed(_, _)
processQuestions_Reversed(st, questions) ==
    IF Len(questions) = 0 THEN st
    ELSE ProcessQuestion(processQuestions_Reversed(st, Tail(questions)),
                         Head(questions))

RECURSIVE processQuestions(_, _)
processQuestions(st, questions) ==
    IF Len(questions) = 0 THEN st
    ELSE processQuestions(ProcessQuestion(st, Head(questions)), Tail(questions))

\* Mutant of EmitBlock: the counters are reset at every block.
EmitBlock_ResetCounters(st, label, questions) ==
    IF Len(questions) > 0
    THEN processQuestions(
             [st EXCEPT !.lines = @ \o <<"[[Block:" \o label \o "]]", "">>,
                        !.mcCounter = 1, !.teCounter = 1],
             questions)
    ELSE st

\* Mutant of EmitBlock: the marker is pushed without the length test.
EmitBlock_NoLengthTest(st, label, questions) ==
    processQuestions(
        [st EXCEPT !.lines = @ \o <<"[[Block:" \o label \o "]]", "">>],
        questions)

\* Mutant of EmitBlock: one more blank line is pushed after the questions of
\* a block.
EmitBlock_BlankAfterBlock(st, label, questions) ==
    IF Len(questions) > 0
    THEN LET r == processQuestions(
                      [st EXCEPT !.lines = @ \o <<"[[Block:" \o label \o "]]", "">>],
                      questions)
         IN  [r EXCEPT !.lines = @ \o <<"">>]
    ELSE st

\* One "if (group.length > 0) { push marker; push ''; processQuestions }".
EmitBlock(st, label, questions) ==
    IF Len(questions) > 0
    THEN processQuestions(
             [st EXCEPT !.lines = @ \o <<"[[Block:" \o label \o "]]", "">>],
             questions)
    ELSE st

RECURSIVE EmitCoreBlocks(_, _)
EmitCoreBlocks(st, core) ==
    IF core = <<>> THEN st
    ELSE EmitCoreBlocks(
             EmitBlock(st, "Core Questions: " \o Head(core).topic,
                       Head(core).questions),
             Tail(core))

QualtricsState(c) ==
    LET s0 == [lines |-> <<>>, mcCounter |-> 1, teCounter |-> 1]
        s1 == EmitBlock(s0, "Opening / Warm-up Questions", c.opening)
        s2 == EmitCoreBlocks(s1, c.core)
        s3 == EmitBlock(s2, "Follow-ups / Probes", c.followUps)
    IN  EmitBlock(s3, "Closing / Wrap-up", c.closing)

generateQualtricsTxt(c) == QualtricsState(c).lines

(***************************************************************************)
(* formatContentAsText (components/OutputDisplay.tsx).  Every piece        *)
(* "...\n" appended to text is one line of the result.                     *)
(***************************************************************************)
RECURSIVE OptionBullets(_)
OptionBullets(options) ==
    IF options = <<>> THEN <<>>
    ELSE <<"  - " \o Head(options)>> \o OptionBullets(Tail(options))

\* Mutant of FormatQuestion: a question without a type is left out, as in
\* the TXT export.
FormatQuestion_TypedOnly(q) ==
    IF ~HasType(q) THEN <<>>
    ELSE <<"- " \o q.text>>
         \o (IF HasOptions(q) THEN OptionBullets(q.options) ELSE <<>>)

\* text += `- ${q.text}\n`; if (q.options) q.options.forEach(...)
FormatQuestion(q) ==
    <<"- " \o q.text>> \o (IF HasOptions(q) THEN OptionBullets(q.options) ELSE <<>>)

RECURSIVE FormatQuestions(_)
FormatQuestions(questions) ==
    IF questions = <<>> THEN <<>>
    ELSE FormatQuestion(Head(questions)) \o FormatQuestions(Tail(questions))

RECURSIVE FormatCore(_)
FormatCore(core) ==
    IF core = <<>> THEN <<>>
    ELSE <<"## Core Questions: " \o Head(core).topic>>
         \o FormatQuestions(Head(core).questions)
         \o <<"">>
         \o FormatCore(Tail(core))

formatContentAsText(c) ==
    <<"## Opening / Warm-up Questions">>
    \o FormatQuestions(c.opening)
    \o <<"">>
    \o FormatCore(c.core)
    \o <<"## Follow-ups / Probes">>
    \o FormatQuestions(c.followUps)
    \o <<"">>
    \o <<"## Closing / Wrap-up">>
    \o FormatQuestions(c.closing)

(***************************************************************************)
(* handleExportPDF (components/OutputDisplay.tsx).  The layout state is    *)
(* [y, pages, ops, calls]: the cursor, the number of pages, the blocks     *)
(* handed to pdf.text (with the page and the y they were drawn at), and a  *)
(* record of each addSection call.  Lengths are in tenths of a millimetre. *)
(***************************************************************************)
margin == 150

pageWidth == 2100     \* jsPDF('p', 'mm', 'a4')

pageHeight == 2970

maxLineWidth == pageWidth - margin * 2

\* The texts handed to splitTextToSize that do not fit one line, with the
\* number of lines each wraps to.
LongQuestionBlocks ==
    {"- " \o LongQuestionText \o ToString(i) : i \in 1..(MaxPdfQuestions + 1)}

LongOptionBlocks == {"    * " \o LongOptionName}

LineCount(text) ==
    IF text \in LongQuestionBlocks THEN LongQuestionLines
    ELSE IF text \in LongOptionBlocks THEN LongOptionLines
    ELSE 1

\* jsPDF's splitTextToSize: the wrapped lines of a text, one entry per line.
splitTextToSize(text, maxWidth) ==
    IF LineCount(text) = 1 THEN <<text>>
    ELSE [j \in 1..LineCount(text) |-> text \o " #" \o ToString(j)]

\* Mutant of checkPageBreak: the bottom margin is forgotten.
checkPageBreak_NoBottomMargin(st, neededHeight) ==
    IF st.y + neededHeight > pageHeight
    THEN [st EXCEPT !.pages = @ + 1, !.y = margin]
    ELSE st

\* Mutant of checkPageBreak: the page is added and y is not reset.
checkPageBreak_NoReset(st, neededHeight) ==
    IF st.y + neededHeight > pageHeight - margin
    THEN [st EXCEPT !.pages = @ + 1]
    ELSE st

checkPageBreak(st, neededHeight) ==
    IF st.y + neededHeight > pageHeight - margin
    THEN [st EXCEPT !.pages = @ + 1, !.y = margin]
    ELSE st

\* pdf.text(lines, x, y)
PdfText(st, kind, lines, x) ==
    [st EXCEPT !.ops = Append(@, [kind |-> kind, lines |-> lines, x |-> x,
                                  y |-> st.y, page |-> st.pages])]

\* The body of q.options.forEach in addSection.
AddOption(st, opt) ==
    LET optionLines == splitTextToSize("    * " \o opt, maxLineWidth - 100)
        s1 == checkPageBreak(st, Len(optionLines) * 45)
        s2 == PdfText(s1, "option", optionLines, margin + 50)
    IN  [s2 EXCEPT !.y = @ + Len(optionLines) * 45]

\* Mutant of AddOptions: one page-break test for the whole option list, which
\* is then drawn in one piece.
RECURSIVE DrawOptions(_, _)
DrawOptions(st, options) ==
    IF options = <<>> THEN st
    ELSE LET optionLines == splitTextToSize("    * " \o Head(options),
                                            maxLineWidth - 100)
             s2 == [PdfText(st, "option", optionLines, margin + 50)
                        EXCEPT !.y = @ + Len(optionLines) * 45]
         IN  DrawOptions(s2, Tail(options))

AddOptions_KeptTogether(st, options) ==
    LET total == DrawOptions([st EXCEPT !.y = 0], options).y
    IN  DrawOptions(checkPageBreak(st, total), options)

RECURSIVE AddOptions(_, _)
AddOptions(st, options) ==
    IF options = <<>> THEN st
    ELSE AddOptions(AddOption(st, Head(options)), Tail(options))

\* The body of questions.forEach in addSection.
AddQuestion(st, q) ==
    LET questionLines == splitTextToSize("- " \o q.text, maxLineWidth - 50)
        s1 == checkPageBreak(st, Len(questionLines) * 50 + 20)
        s2 == PdfText(s1, "question", questionLines, margin + 20)
        s3 == [s2 EXCEPT !.y = @ + Len(questionLines) * 50 + 20]
    IN  IF HasOptions(q) /\ Len(q.options) > 0
        THEN [AddOptions(s3, q.options) EXCEPT !.y = @ + 20]
        ELSE s3

RECURSIVE AddQuestions(_, _)
AddQuestions(st, questions) ==
    IF questions = <<>> THEN st
    ELSE AddQuestions(AddQuestion(st, Head(questions)), Tail(questions))

\* Mutant of addSection: the early return for an empty group is missing.
addSection_NoEmptyReturn(st, title, questions) ==
    LET sectionTitleLines == splitTextToSize(title, maxLineWidth)
        s1 == checkPageBreak(st, Len(sectionTitleLines) * 70 + 80)
        s2 == PdfText(s1, "heading", sectionTitleLines, margin)
        s3 == [s2 EXCEPT !.y = @ + Len(sectionTitleLines) * 70 + 40]
        s4 == AddQuestions(s3, questions)
    IN  [s4 EXCEPT !.y = @ + 50]

addSection(st, title, questions) ==
    IF Len(questions) = 0 THEN st
    ELSE
      LET sectionTitleLines == splitTextToSize(title, maxLineWidth)
          s1 == checkPageBreak(st, Len(sectionTitleLines) * 70 + 80)
          s2 == PdfText(s1, "heading", sectionTitleLines, margin)
          s3 == [s2 EXCEPT !.y = @ + Len(sectionTitleLines) * 70 + 40]
          s4 == AddQuestions(s3, questions)
      IN  [s4 EXCEPT !.y = @ + 50]

\* One call of addSection by handleExportPDF, entered in the record of calls.
CallAddSection(st, title, questions) ==
    LET r == addSection(st, title, questions)
    IN  [r EXCEPT !.calls = Append(@,
            [title |-> title, questions |-> questions,
             yBefore |-> st.y, pagesBefore |-> st.pages, opsBefore |-> Len(st.ops),
             yAfter |-> r.y, pagesAfter |-> r.pages, opsAfter |-> Len(r.ops)])]

RECURSIVE AddCoreSections(_, _)
AddCoreSections(st, core) ==
    IF core = <<>> THEN st
    ELSE AddCoreSections(
             CallAddSection(st, "Core Questions: " \o Head(core).topic,
                            Head(core).questions),
             Tail(core))

PdfLayout(c) ==
    LET s0 == [y |-> margin, pages |-> 1, ops |-> <<>>, calls |-> <<>>]
        title == IF IsQuestionnaire(c) THEN "Generated Questionnaire"
                 ELSE "Generated Script"
        titleLines == splitTextToSize(title, maxLineWidth)
        s1 == checkPageBreak(s0, Len(titleLines) * 80)
        s2 == PdfText(s1, "title", titleLines, pageWidth \div 2)
        s3 == [s2 EXCEPT !.y = @ + Len(titleLines) * 80 + 100]
        s4 == CallAddSection(s3, "Opening / Warm-up Questions", c.opening)
        s5 == AddCoreSections(s4, c.core)
        s6 == CallAddSection(s5, "Follow-ups / Probes", c.followUps)
    IN  CallAddSection(s6, "Closing / Wrap-up", c.closing)

(***************************************************************************)
(* The Gemini service (services/geminiService.ts).  A reply is what the    *)
(* awaited ai.models.generateContent does: it rejects with a message, or   *)
(* it resolves with a text that JSON.parse rejects (NotJson) or turns into *)
(* an object.  A call returns [ok |-> TRUE, value |-> document] or throws, *)
(* [ok |-> FALSE, message |-> m].                                          *)
(***************************************************************************)
NoContent == [null |-> TRUE]     \* generatedContent = null

NoError == "null"                \* error = null

RESEARCH_TYPES ==
    {"Generative Interview (early discovery)",
     "Questionnaire (feature prioritization, perception)"}

\* The value of a select option: option.split('(')[0].trim()
OptionValue(option) ==
    CASE option = "Generative Interview (early discovery)" -> "Generative Interview"
      [] option = "Questionnaire (feature prioritization, perception)" -> "Questionnaire"

\* Mutant of toLowerCase: the text is left as it is.
toLowerCase_AsIs(text) == text

toLowerCase(text) ==
    CASE text = "Generative Interview" -> "generative interview"
      [] text = "Questionnaire" -> "questionnaire"

\* researchType.toLowerCase().includes('questionnaire')
NamesQuestionnaire(researchType) ==
    toLowerCase(researchType) \in {"questionnaire"}

InitialFormData ==
    [researchType |-> "Generative Interview", productImages |-> <<>>]

\* The documents the model answers with: two questions with ids of their
\* own, and a document whose id q1 is used twice in opening.
ServiceDoc1 ==
    MkContent(<<[id |-> "", text |-> "", type |-> "SingleChoice",
                 options |-> <<OptionNames[1], OptionNames[2]>>],
                [id |-> "", text |-> ""]>>,
              <<1, 2>>, 1, FALSE)

ServiceDoc2 ==
    [ServiceDoc1 EXCEPT
        !.opening = @ \o <<[id |-> "q1", text |-> "Question 3"]>>,
        !.core[1].questions = <<>>,
        !.closing = <<[id |-> "q4", text |-> "Question 4",
                       type |-> "FreeText"]>>]

ServiceDocs == {ServiceDoc1, ServiceDoc2}

\* A response without followUps.
MalformedDoc ==
    [f \in {"opening", "core", "closing"} |-> ServiceDoc1[f]]

NotJson == [notJson |-> TRUE]

Replies ==
    {[kind |-> "rejected", message |-> "fetch failed"],
     [kind |-> "rejected", message |-> "API_KEY_INVALID"]}
    \cup {[kind |-> "text", json |-> j] :
              j \in {NotJson, MalformedDoc} \cup ServiceDocs}

\* error.message.includes('API_KEY')
NamesApiKey(message) == message \in {"API_KEY_INVALID"}

Return(value) == [ok |-> TRUE, value |-> value]

Throw(message) == [ok |-> FALSE, message |-> message]

MissingSection(parsedContent) ==
    \E f \in {"opening", "core", "followUps", "closing"} :
        f \notin DOMAIN parsedContent

\* parsedContent.isQuestionnaire = true
WithIsQuestionnaire(parsedContent) ==
    [f \in DOMAIN parsedContent \cup {"isQuestionnaire"} |->
        IF f = "isQuestionnaire" THEN TRUE ELSE parsedContent[f]]

\* The try block of both calls, whose throws the catch block receives.
TryBlock(reply, isQuestionnaire, malformed) ==
    IF reply.kind = "rejected" THEN Throw(reply.message)
    ELSE IF reply.json = NotJson THEN Throw("Unexpected token in JSON")
    ELSE IF MissingSection(reply.json) THEN Throw(malformed)
    ELSE Return(IF isQuestionnaire THEN WithIsQuestionnaire(reply.json)
                ELSE reply.json)

\* The catch block of both calls.
CatchBlock(attempt, unavailable) ==
    IF attempt.ok THEN attempt
    ELSE IF NamesApiKey(attempt.message)
    THEN Throw("The API key is invalid or not configured correctly. Please check your environment variables.")
    ELSE Throw(unavailable)

generateQuestionnaire(fd, reply) ==
    CatchBlock(
        TryBlock(reply, NamesQuestionnaire(fd.researchType),
                 "Received malformed content from AI. Missing required sections."),
        "Failed to generate content. The AI model may be temporarily unavailable.")

\* Mutant of refineQuestionnaire: a successful call returns the document it
\* was given.
refineQuestionnaire_KeepsCurrent(fd, currentContent, reply) ==
    LET outcome ==
          CatchBlock(
              TryBlock(reply, FALSE,
                       "Received malformed content from AI during refinement. Missing required sections."),
              "Failed to refine content. The AI model may be temporarily unavailable.")
    IN  IF outcome.ok THEN Return(currentContent) ELSE outcome

refineQuestionnaire(fd, currentContent, reply) ==
    CatchBlock(
        TryBlock(reply,
                 IsQuestionnaire(currentContent)
                     \/ NamesQuestionnaire(fd.researchType),
                 "Received malformed content from AI during refinement. Missing required sections."),
        "Failed to refine content. The AI model may be temporarily unavailable.")

(***************************************************************************)
(* updateQuestionText (OutputDisplay).                                     *)
(***************************************************************************)
\* JSON.parse(JSON.stringify(prev)): the document rebuilt field by field.
CloneQuestions(questions) ==
    [j \in 1..Len(questions) |->
        [f \in DOMAIN questions[j] |-> questions[j][f]]]

DeepCopy(prev) ==
    [f \in DOMAIN prev |->
        IF f = "core"
        THEN [s \in 1..Len(prev.core) |->
                 [topic |-> prev.core[s].topic,
                  questions |-> CloneQuestions(prev.core[s].questions)]]
        ELSE IF f = "isQuestionnaire" THEN prev[f]
        ELSE CloneQuestions(prev[f])]

\* questions.findIndex(q => q.id === id), counted from 1; 0 when none.
RECURSIVE findIndex(_, _, _)
findIndex(questions, id, j) ==
    IF j > Len(questions) THEN 0
    ELSE IF questions[j].id = id THEN j
    ELSE findIndex(questions, id, j + 1)

\* Mutant of SetText: every question with the id gets the text.
SetText_EveryMatch(questions, id, newText) ==
    [j \in 1..Len(questions) |->
        IF questions[j].id = id THEN [questions[j] EXCEPT !.text = newText]
        ELSE questions[j]]

SetText(questions, id, newText) ==
    LET qIndex == findIndex(questions, id, 1)
    IN  IF qIndex > 0 THEN [questions EXCEPT ![qIndex].text = newText]
        ELSE questions

\* coreIndex = 0 stands for an undefined coreIndex.
updateQuestionText(prev, section, id, newText, coreIndex) ==
    IF prev = NoContent THEN NoContent
    ELSE LET newContent == DeepCopy(prev)
         IN  IF section = "core" /\ coreIndex # 0
             THEN [newContent EXCEPT
                      !.core[coreIndex].questions = SetText(@, id, newText)]
             ELSE [newContent EXCEPT ![section] = SetText(@, id, newText)]

(***************************************************************************)
(* What OutputDisplay renders: the spinner while loading, the error when   *)
(* there is one, the placeholder without a document, else the document     *)
(* with its buttons.                                                       *)
(***************************************************************************)
DocumentShown == ~isLoading /\ error = NoError /\ content # NoContent

AppIdle ==
    /\ formData = InitialFormData
    /\ isLoading = FALSE
    /\ isRefining = FALSE
    /\ error = NoError
    /\ isToneAdjusting = ""
    /\ refinementInput = ""
    /\ inFlight = EmptyBag
    /\ lastOp = [kind |-> "none"]
    /\ readers = EmptyBag
    /\ now = 0
    /\ isOpen = FALSE
    /\ messages = <<>>
    /\ input = ""
    /\ chatIsLoading = FALSE
    /\ chatRef = FALSE
    /\ sending = EmptyBag

(***************************************************************************)
(* The state machine: a document is on display and the user presses the    *)
(* export buttons.  The sinks (download, clipboard, PDF file) are outside  *)
(* the program; the model keeps what the last export handed to its sink.   *)
(***************************************************************************)
NoPdf == [y |-> margin, pages |-> 1, ops |-> <<>>, calls |-> <<>>]

\* Every document of at most MaxQuestions questions in at most MaxSections
\* core sections, an interview script or a questionnaire.
Init ==
    /\ \E k \in 0..MaxQuestions, ns \in 0..MaxSections, isQ \in BOOLEAN :
         \E qs \in [1..k -> QuestionShapes], g \in GroupAssignments(k, ns + 3) :
            content = MkContent(qs, g, ns, isQ)
    /\ exported = "none"
    /\ txtFile = <<>>
    /\ clipboard = <<>>
    /\ pdfDoc = NoPdf
    /\ AppIdle
    /\ apiKey = TRUE

\* Mutant of HandleExportTxt: the button is rendered for every document.
HandleExportTxt_AnyDocument ==
    /\ DocumentShown
    /\ txtFile' = generateQualtricsTxt(content)
    /\ exported' = "txt"
    /\ clipboard' = <<>>
    /\ pdfDoc' = NoPdf
    /\ lastOp' = [kind |-> "exportTxt", before |-> content]
    /\ UNCHANGED <<content, appVars, imageVars, chatVars>>

\* handleExportTxt; its button is rendered only for a questionnaire.
HandleExportTxt ==
    /\ DocumentShown
    /\ IsQuestionnaire(content)
    /\ txtFile' = generateQualtricsTxt(content)
    /\ exported' = "txt"
    /\ clipboard' = <<>>
    /\ pdfDoc' = NoPdf
    /\ lastOp' = [kind |-> "exportTxt", before |-> content]
    /\ UNCHANGED <<content, appVars, imageVars, chatVars>>

\* handleCopyToClipboard
HandleCopyToClipboard ==
    /\ DocumentShown
    /\ clipboard' = formatContentAsText(content)
    /\ exported' = "clipboard"
    /\ txtFile' = <<>>
    /\ pdfDoc' = NoPdf
    /\ lastOp' = [kind |-> "copy", before |-> content]
    /\ UNCHANGED <<content, appVars, imageVars, chatVars>>

\* Mutant of HandleExportPDF: the opening questions are taken out of the
\* document as they are drawn.
HandleExportPDF_ShiftsQuestions ==
    /\ DocumentShown
    /\ pdfDoc' = PdfLayout(content)
    /\ exported' = "pdf"
    /\ txtFile' = <<>>
    /\ clipboard' = <<>>
    /\ lastOp' = [kind |-> "exportPdf", before |-> content]
    /\ content' = [content EXCEPT !.opening = <<>>]
    /\ UNCHANGED <<appVars, imageVars, chatVars>>

\* handleExportPDF
HandleExportPDF ==
    /\ DocumentShown
    /\ pdfDoc' = PdfLayout(content)
    /\ exported' = "pdf"
    /\ txtFile' = <<>>
    /\ clipboard' = <<>>
    /\ lastOp' = [kind |-> "exportPdf", before |-> content]
    /\ UNCHANGED <<content, appVars, imageVars, chatVars>>

Next ==
    \/ HandleExportTxt
    \/ HandleCopyToClipboard
    \/ HandleExportPDF

Spec == Init /\ [][Next]_vars

(***************************************************************************)
(* The PDF export of documents long enough to run over several pages.      *)
(***************************************************************************)
InitPdf ==
    /\ \E k \in 0..MaxPdfQuestions, isQ \in BOOLEAN :
         \E qs \in [1..k -> PdfQuestionShapes], g \in GroupAssignments(k, 4) :
            content = MkContent(qs, g, 1, isQ)
    /\ exported = "none"
    /\ txtFile = <<>>
    /\ clipboard = <<>>
    /\ pdfDoc = NoPdf
    /\ AppIdle
    /\ apiKey = TRUE

NextPdf == HandleExportPDF

SpecPdf == InitPdf /\ [][NextPdf]_vars

(***************************************************************************)
(* The App and OutputDisplay handlers.  A step that is no export leaves    *)
(* nothing in the sinks of the model.                                      *)
(***************************************************************************)
NoExport ==
    /\ exported' = "none"
    /\ txtFile' = <<>>
    /\ clipboard' = <<>>
    /\ pdfDoc' = NoPdf

ToneButtons == {"Formal", "Friendly"}

RefinementInputs == {"  ", "Add a section about pricing"}

\* refinementInput.trim()
Trim(text) == IF text = "  " THEN "" ELSE text

NewTexts == {"Edited"}

QuestionIds == {"q1", "q2"}

InitApp ==
    /\ content = NoContent
    /\ exported = "none"
    /\ txtFile = <<>>
    /\ clipboard = <<>>
    /\ pdfDoc = NoPdf
    /\ AppIdle
    /\ apiKey = TRUE

\* handleFormChange, for the research type
HandleFormChange ==
    /\ \E option \in RESEARCH_TYPES :
          formData' = [formData EXCEPT !.researchType = OptionValue(option)]
    /\ lastOp' = [kind |-> "formChange"]
    /\ NoExport
    /\ UNCHANGED <<content, isLoading, isRefining, error, isToneAdjusting,
                   refinementInput, inFlight, imageVars, chatVars>>

\* handleGenerate up to its await; newTone = "" stands for no argument.
handleGenerate(newTone) ==
    /\ isLoading' = TRUE
    /\ error' = NoError
    /\ content' = NoContent
    /\ inFlight' = inFlight (+) SetToBag({[kind |-> "generate",
                                           formData |-> formData,
                                           currentContent |-> NoContent,
                                           newTone |-> newTone]})
    /\ NoExport
    /\ UNCHANGED <<formData, isRefining, refinementInput, imageVars, chatVars>>

\* The Generate button of the form, disabled while isLoading:
\* onGenerate={() => handleGenerate()}
HandleGenerateButton ==
    /\ ~isLoading
    /\ handleGenerate("")
    /\ lastOp' = [kind |-> "generate"]
    /\ UNCHANGED isToneAdjusting

\* handleToneAdjust up to its await; the tone buttons are disabled while a
\* tone is being adjusted or a refinement runs.
HandleToneAdjust ==
    \E tone \in ToneButtons :
        /\ DocumentShown
        /\ isToneAdjusting = "" /\ ~isRefining
        /\ isToneAdjusting' = tone
        /\ handleGenerate(tone)
        /\ lastOp' = [kind |-> "toneAdjust", tone |-> tone]

\* The generate call settles: the rest of handleGenerate and, for a tone
\* adjustment, the rest of handleToneAdjust.
SettleGenerate ==
    \E request \in BagToSet(inFlight), reply \in Replies :
        /\ request.kind = "generate"
        /\ LET outcome == generateQuestionnaire(request.formData, reply)
           IN  /\ content' = IF outcome.ok THEN outcome.value ELSE content
               /\ error' = IF outcome.ok THEN error ELSE outcome.message
        /\ isLoading' = FALSE
        /\ isToneAdjusting' =
              IF request.newTone # "" THEN "" ELSE isToneAdjusting
        /\ inFlight' = inFlight (-) SetToBag({request})
        /\ lastOp' = [kind |-> "generated", reply |-> reply,
                      researchType |-> request.formData.researchType,
                      before |-> content]
        /\ NoExport
        /\ UNCHANGED <<formData, isRefining, refinementInput, imageVars, chatVars>>

\* The refinement input's onChange; the input is disabled while a
\* refinement runs or a tone is being adjusted.
SetRefinementInput ==
    /\ DocumentShown
    /\ ~isRefining /\ isToneAdjusting = ""
    /\ \E value \in RefinementInputs : refinementInput' = value
    /\ lastOp' = [kind |-> "input"]
    /\ NoExport
    /\ UNCHANGED <<content, formData, isLoading, isRefining, error,
                   isToneAdjusting, inFlight, imageVars, chatVars>>

\* handleRefine up to its await
handleRefine(refinementPrompt) ==
    /\ content # NoContent
    /\ isRefining' = TRUE
    /\ error' = NoError
    /\ inFlight' = inFlight (+) SetToBag({[kind |-> "refine",
                                           formData |-> formData,
                                           currentContent |-> content,
                                           newTone |-> ""]})
    /\ NoExport
    /\ UNCHANGED <<content, formData, isLoading, isToneAdjusting,
                   refinementInput, imageVars, chatVars>>

\* handleSendRefinement up to its await
HandleSendRefinement ==
    /\ DocumentShown
    /\ ~(Trim(refinementInput) = "" \/ isRefining \/ isToneAdjusting # "")
    /\ handleRefine(refinementInput)
    /\ lastOp' = [kind |-> "refine"]

\* The refine call settles: the rest of handleRefine and of
\* handleSendRefinement.
SettleRefine ==
    \E request \in BagToSet(inFlight), reply \in Replies :
        /\ request.kind = "refine"
        /\ LET outcome == refineQuestionnaire(request.formData,
                                              request.currentContent, reply)
           IN  /\ content' = IF outcome.ok THEN outcome.value ELSE content
               /\ error' = IF outcome.ok THEN error ELSE outcome.message
        /\ isRefining' = FALSE
        /\ refinementInput' = ""
        /\ inFlight' = inFlight (-) SetToBag({request})
        /\ lastOp' = [kind |-> "refined", reply |-> reply,
                      currentContent |-> request.currentContent,
                      researchType |-> request.formData.researchType,
                      editedMeanwhile |->
                          content # request.currentContent,
                      before |-> content]
        /\ NoExport
        /\ UNCHANGED <<formData, isLoading, isToneAdjusting, imageVars,
                       chatVars>>

\* A question of the document shown is edited and saved: the Section of a
\* group calls updateQuestionText with its key and, for core, its index.
UpdateQuestionText ==
    /\ DocumentShown
    /\ \E section \in {"opening", "core", "followUps", "closing"},
          id \in QuestionIds, newText \in NewTexts :
         \E coreIndex \in IF section = "core" THEN DOMAIN content.core
                                               ELSE {0} :
            /\ content' = updateQuestionText(content, section, id, newText,
                                             coreIndex)
            /\ lastOp' = [kind |-> "edit", section |-> section, id |-> id,
                          newText |-> newText, coreIndex |-> coreIndex,
                          before |-> content]
    /\ NoExport
    /\ UNCHANGED <<appVars, imageVars, chatVars>>

NextApp ==
    \/ HandleFormChange
    \/ HandleGenerateButton
    \/ HandleToneAdjust
    \/ SettleGenerate
    \/ SetRefinementInput
    \/ HandleSendRefinement
    \/ SettleRefine
    \/ UpdateQuestionText
    \/ HandleExportTxt
    \/ HandleCopyToClipboard
    \/ HandleExportPDF

SpecApp == InitApp /\ [][NextApp]_vars

(***************************************************************************)
(* The product images of the form (App.handleImageAdd, handleImageRemove). *)
(* An image is [file, time]: its name is `${file.name}-${Date.now()}`.     *)
(***************************************************************************)
MaxFiles == 2      \* files of one selection
MaxReaders == 2    \* FileReaders reading at once
MaxImages == 3     \* images attached
MaxNow == 2        \* ticks of the clock

FileNames == {"shot.png", "shot.png.webp"}

\* The selections of the file dialog: files of different names, in order.
FileLists ==
    {files \in UNION {[1..n -> FileNames] : n \in 1..MaxFiles} :
        \A i, j \in DOMAIN files : i # j => files[i] # files[j]}

IsPrefix(a, b) == a = b \/ (a = "shot.png" /\ b = "shot.png.webp")

\* img.name.startsWith(file.name)
NameStartsWith(img, fileName) == IsPrefix(fileName, img.file)

\* The files of a selection that pass the duplicate check, as a bag.
RECURSIVE NewFiles(_, _)
NewFiles(files, productImages) ==
    IF files = <<>> THEN EmptyBag
    ELSE (IF \E i \in DOMAIN productImages :
                NameStartsWith(productImages[i], Head(files))
          THEN EmptyBag
          ELSE SetToBag({Head(files)}))
         (+) NewFiles(Tail(files), productImages)

\* handleImageAdd: a reader is started for every file that passes the check
\* against the attached images.
HandleImageAdd ==
    /\ \E files \in FileLists :
          /\ readers' = readers (+) NewFiles(files, formData.productImages)
          /\ BagCardinality(readers') <= MaxReaders
          /\ lastOp' = [kind |-> "imageAdd", files |-> files]
    /\ UNCHANGED <<content, exported, txtFile, clipboard, pdfDoc, appVars, now,
                   chatVars>>

\* reader.onloadend
ReaderLoadEnd ==
    /\ Len(formData.productImages) < MaxImages
    /\ \E file \in BagToSet(readers) :
          /\ formData' = [formData EXCEPT
                !.productImages = Append(@, [file |-> file, time |-> now])]
          /\ readers' = readers (-) SetToBag({file})
          /\ lastOp' = [kind |-> "imageLoaded", file |-> file]
    /\ UNCHANGED <<content, exported, txtFile, clipboard, pdfDoc, isLoading,
                   isRefining, error, isToneAdjusting, refinementInput,
                   inFlight, now, chatVars>>

\* handleImageRemove, called with the name of an attached image
HandleImageRemove ==
    /\ \E i \in DOMAIN formData.productImages :
          LET imageName == formData.productImages[i]
              Kept(img) == img # imageName
          IN  /\ formData' = [formData EXCEPT
                    !.productImages = SelectSeq(@, Kept)]
              /\ lastOp' = [kind |-> "imageRemove", name |-> imageName]
    /\ UNCHANGED <<content, exported, txtFile, clipboard, pdfDoc, isLoading,
                   isRefining, error, isToneAdjusting, refinementInput,
                   inFlight, imageVars, chatVars>>

\* Time passes.
Tick ==
    /\ now < MaxNow
    /\ now' = now + 1
    /\ UNCHANGED <<content, exported, txtFile, clipboard, pdfDoc, appVars,
                   lastOp, readers, chatVars>>

NextImages ==
    \/ HandleImageAdd
    \/ ReaderLoadEnd
    \/ HandleImageRemove
    \/ Tick

SpecImages == InitApp /\ [][NextImages]_vars

(***************************************************************************)
(* The chat panel (Chatbot).                                               *)
(***************************************************************************)
MaxSends == 2   \* user messages in the chat

Greeting ==
    [role |-> "model",
     text |-> "Hello! How can I help you with your user research today?"]

UnableToConnect ==
    [role |-> "model",
     text |-> "Sorry, I am unable to connect right now. Please check your API key."]

SomethingWentWrong ==
    [role |-> "model", text |-> "Sorry, something went wrong. Please try again."]

ChatInputs == {"", "  ", "Hello"}

\* The outcomes of chat.sendMessage.
ChatReplies ==
    {[kind |-> "rejected"], [kind |-> "text", text |-> "Happy to help."]}

\* The application starts with or without an API key.
InitChat ==
    /\ content = NoContent
    /\ exported = "none"
    /\ txtFile = <<>>
    /\ clipboard = <<>>
    /\ pdfDoc = NoPdf
    /\ AppIdle
    /\ apiKey \in BOOLEAN

\* initializeChat; creating the client throws without an API key.
initializeChat ==
    IF apiKey
    THEN chatRef' = TRUE /\ messages' = <<Greeting>>
    ELSE chatRef' = FALSE /\ messages' = <<UnableToConnect>>

\* The round button: setIsOpen(!isOpen), then the effect on isOpen.
ToggleChat ==
    /\ isOpen' = ~isOpen
    /\ IF isOpen' /\ ~chatRef THEN initializeChat
       ELSE UNCHANGED <<chatRef, messages>>
    /\ lastOp' = [kind |-> "toggle", before |-> messages]
    /\ UNCHANGED <<content, exported, txtFile, clipboard, pdfDoc, appVars,
                   imageVars, input, chatIsLoading, sending, apiKey>>

\* The text input's onChange; the input is disabled while isLoading.
SetInput ==
    /\ isOpen /\ ~chatIsLoading
    /\ \E value \in ChatInputs : input' = value
    /\ lastOp' = [kind |-> "chatInput", before |-> messages]
    /\ UNCHANGED <<content, exported, txtFile, clipboard, pdfDoc, appVars,
                   imageVars, isOpen, messages, chatIsLoading, chatRef,
                   sending, apiKey>>

\* handleSend up to its await, called by the Enter key of the input.  With
\* no chat the throw, the catch and the finally run before it returns.
HandleSend ==
    /\ isOpen /\ ~chatIsLoading
    /\ IF Trim(input) = "" \/ chatIsLoading
       THEN /\ lastOp' = [kind |-> "send", sent |-> FALSE, text |-> input,
                          before |-> messages]
            /\ UNCHANGED chatVars
       ELSE LET userMessage == [role |-> "user", text |-> input]
            IN  /\ Cardinality({i \in DOMAIN messages :
                                   messages[i].role = "user"}) < MaxSends
                /\ input' = ""
                /\ IF ~chatRef
                   THEN /\ messages' = messages \o
                                           <<userMessage, SomethingWentWrong>>
                        /\ chatIsLoading' = FALSE
                        /\ sending' = sending
                   ELSE /\ messages' = Append(messages, userMessage)
                        /\ chatIsLoading' = TRUE
                        /\ sending' = sending (+) SetToBag({userMessage.text})
                /\ lastOp' = [kind |-> "send", sent |-> TRUE, text |-> input,
                              before |-> messages]
                /\ UNCHANGED <<isOpen, chatRef, apiKey>>
    /\ UNCHANGED <<content, exported, txtFile, clipboard, pdfDoc, appVars,
                   imageVars>>

\* Mutant of SettleSend: isLoading is cleared after the reply only, not in
\* a finally block.
SettleSend_NoFinally ==
    /\ \E message \in BagToSet(sending), reply \in ChatReplies :
          /\ messages' = Append(messages,
                                IF reply.kind = "text"
                                THEN [role |-> "model", text |-> reply.text]
                                ELSE SomethingWentWrong)
          /\ chatIsLoading' = (reply.kind # "text")
          /\ sending' = sending (-) SetToBag({message})
          /\ lastOp' = [kind |-> "reply", reply |-> reply,
                        before |-> messages]
    /\ UNCHANGED <<content, exported, txtFile, clipboard, pdfDoc, appVars,
                   imageVars, isOpen, input, chatRef, apiKey>>

\* sendMessage settles: the rest of handleSend.
SettleSend ==
    /\ \E message \in BagToSet(sending), reply \in ChatReplies :
          /\ messages' = Append(messages,
                                IF reply.kind = "text"
                                THEN [role |-> "model", text |-> reply.text]
                                ELSE SomethingWentWrong)
          /\ chatIsLoading' = FALSE
          /\ sending' = sending (-) SetToBag({message})
          /\ lastOp' = [kind |-> "reply", reply |-> reply,
                        before |-> messages]
    /\ UNCHANGED <<content, exported, txtFile, clipboard, pdfDoc, appVars,
                   imageVars, isOpen, input, chatRef, apiKey>>

NextChat ==
    \/ ToggleChat
    \/ SetInput
    \/ HandleSend
    \/ SettleSend

SpecChat == InitChat /\ [][NextChat]_vars

(***************************************************************************)
(* The requests of the App and of the chat together, every call that is    *)
(* awaited settling eventually.                                            *)
(***************************************************************************)
NextRequests ==
    \/ HandleGenerateButton
    \/ HandleToneAdjust
    \/ SettleGenerate
    \/ SetRefinementInput
    \/ HandleSendRefinement
    \/ SettleRefine
    \/ ToggleChat
    \/ SetInput
    \/ HandleSend
    \/ SettleSend

CallsSettle ==
    /\ WF_vars(SettleGenerate)
    /\ WF_vars(SettleRefine)
    /\ WF_vars(SettleSend)

SpecRequests == InitChat /\ [][NextRequests]_vars /\ CallsSettle

(***************************************************************************)
(* Vocabulary of the properties: the document read in order, and the lines *)
(* a renderer can emit.                                                    *)
(***************************************************************************)
ChoiceTypes == {"SingleChoice", "LikertScale", "MultipleChoice"}

IsChoice(q) == HasType(q) /\ q.type \in ChoiceTypes

IsFreeText(q) == HasType(q) /\ q.type = "FreeText"

\* The groups of a document in the order Opening, core sections, Follow-ups,
\* Closing, each with its label.
Groups(c) ==
    <<[label |-> "Opening / Warm-up Questions", questions |-> c.opening]>>
    \o [s \in 1..Len(c.core) |->
           [label |-> "Core Questions: " \o c.core[s].topic,
            questions |-> c.core[s].questions]]
    \o <<[label |-> "Follow-ups / Probes", questions |-> c.followUps],
         [label |-> "Closing / Wrap-up", questions |-> c.closing]>>

RECURSIVE FlattenGroups(_)
FlattenGroups(gs) ==
    IF gs = <<>> THEN <<>> ELSE Head(gs).questions \o FlattenGroups(Tail(gs))

\* All questions of a document in document order.
Flatten(c) == FlattenGroups(Groups(c))

NonEmptyGroups(c) == SelectSeq(Groups(c), LAMBDA g : Len(g.questions) > 0)

Range(seq) == {seq[i] : i \in DOMAIN seq}

\* Every text a question of the model carries.
QuestionTexts == {"Question " \o ToString(i) : i \in 1..(MaxQuestions + 1)}

Numbers == 0..(2 * MaxQuestions + 2)

MCLine(n, text) == "MC" \o ToString(n) \o ". " \o text

TELine(n, text) == "TE" \o ToString(n) \o ". " \o text

MCLines == {MCLine(n, t) : n \in Numbers, t \in QuestionTexts}

TELines == {TELine(n, t) : n \in Numbers, t \in QuestionTexts}

IsMCLine(l) == l \in MCLines

IsTELine(l) == l \in TELines

BlockMarker(label) == "[[Block:" \o label \o "]]"

BlockLabels ==
    {"Opening / Warm-up Questions", "Follow-ups / Probes", "Closing / Wrap-up"}
    \cup {"Core Questions: " \o Topic(s) : s \in 1..(MaxSections + 1)}

BlockMarkers == {BlockMarker(label) : label \in BlockLabels}

IsBlockMarker(l) == l \in BlockMarkers

\* The indices at which line l stands in seq.
Positions(seq, l) == {p \in DOMAIN seq : seq[p] = l}

(***************************************************************************)
(* C1: in the TXT export the k-th choice/scale question of the document    *)
(* (over all blocks, in order) is numbered MC<k> and the k-th FreeText     *)
(* question TE<k>, from 1, with no reset at a block boundary and no number *)
(* spent on a question without a type.                                     *)
(***************************************************************************)
C1_CountersDocumentWide ==
    exported = "txt" =>
        LET mcQs == SelectSeq(Flatten(content), IsChoice)
            teQs == SelectSeq(Flatten(content), IsFreeText)
            mcLines == SelectSeq(txtFile, IsMCLine)
            teLines == SelectSeq(txtFile, IsTELine)
        IN  /\ Len(mcLines) = Len(mcQs)
            /\ Len(teLines) = Len(teQs)
            /\ \A k \in DOMAIN mcQs : mcLines[k] = MCLine(k, mcQs[k].text)
            /\ \A k \in DOMAIN teQs : teLines[k] = TELine(k, teQs[k].text)

\* Two choice questions in different blocks with a question without a type
\* nowhere counted: the second block continues at MC2.
C1_Witness ==
    /\ exported = "txt"
    /\ Len(content.opening) = 1 /\ IsChoice(content.opening[1])
    /\ Len(content.closing) = 1 /\ IsChoice(content.closing[1])
    /\ MCLine(2, content.closing[1].text) \in Range(txtFile)

(***************************************************************************)
(* C2: a MultipleChoice question gives MC<n>. <text>, [[MultipleAnswer]],  *)
(* an empty line, then its options in order; a SingleChoice or LikertScale *)
(* question gives MC<n>. <text>, an empty line, then its options, and the  *)
(* line after its MC line is never [[MultipleAnswer]].                     *)
(***************************************************************************)
LinesFrom(seq, p, n) == [j \in 1..n |-> seq[p + j]]

C2_MultipleAnswerMarker ==
    exported = "txt" =>
        LET mcQs == SelectSeq(Flatten(content), IsChoice)
        IN  \A k \in DOMAIN mcQs :
              LET q == mcQs[k]
                  opts == OptionsOrNone(q)
                  at == Positions(txtFile, MCLine(k, q.text))
              IN  /\ Cardinality(at) = 1
                  /\ \A p \in at :
                       IF q.type = "MultipleChoice"
                       THEN /\ Len(txtFile) >= p + 2 + Len(opts)
                            /\ txtFile[p + 1] = "[[MultipleAnswer]]"
                            /\ txtFile[p + 2] = ""
                            /\ LinesFrom(txtFile, p + 2, Len(opts)) = opts
                       ELSE /\ Len(txtFile) >= p + 1 + Len(opts)
                            /\ txtFile[p + 1] = ""
                            /\ txtFile[p + 1] # "[[MultipleAnswer]]"
                            /\ LinesFrom(txtFile, p + 1, Len(opts)) = opts

C2_Witness ==
    /\ exported = "txt"
    /\ \E q \in Range(Flatten(content)) :
          IsChoice(q) /\ q.type = "MultipleChoice" /\ Len(OptionsOrNone(q)) >= 2
    /\ \E q \in Range(Flatten(content)) :
          IsChoice(q) /\ q.type = "SingleChoice" /\ Len(OptionsOrNone(q)) >= 2
    /\ "[[MultipleAnswer]]" \in Range(txtFile)

(***************************************************************************)
(* C3: the plain-text renderer writes a "## <label>" heading only for a    *)
(* group that has questions; an empty opening, followUps, closing or core  *)
(* section gets no heading line.  (The code writes every heading.)         *)
(***************************************************************************)
C3_NoHeadingForEmptyGroup ==
    exported = "clipboard" =>
        \A i \in DOMAIN Groups(content) :
            Len(Groups(content)[i].questions) = 0
                => ("## " \o Groups(content)[i].label) \notin Range(clipboard)

(***************************************************************************)
(* C4: the TXT export holds a [[Block:...]] marker for a group exactly     *)
(* when the group has at least one question: the markers of the output, in *)
(* order, are those of the non-empty groups, one each, also for a group    *)
(* whose questions all lack a type; a document of empty groups gives no    *)
(* line at all.                                                            *)
(***************************************************************************)
C4_BlockIffNonEmpty ==
    exported = "txt" =>
        LET markers == SelectSeq(txtFile, IsBlockMarker)
            groups == NonEmptyGroups(content)
        IN  /\ Len(markers) = Len(groups)
            /\ \A i \in DOMAIN groups : markers[i] = BlockMarker(groups[i].label)
            /\ (groups = <<>> => txtFile = <<>>)
            /\ (groups # <<>> => IsBlockMarker(txtFile[1]))

\* An empty group between two non-empty ones, one of them without any typed
\* question: two markers, none for the empty group.
C4_Witness ==
    /\ exported = "txt"
    /\ Len(content.opening) = 1 /\ ~HasType(content.opening[1])
    /\ content.followUps = <<>>
    /\ Len(content.closing) = 1
    /\ Len(SelectSeq(txtFile, IsBlockMarker)) = 2
    /\ BlockMarker("Opening / Warm-up Questions") \in Range(txtFile)

(***************************************************************************)
(* C6: a question without a type is skipped entirely by the TXT export: no *)
(* line, no counter step.  The output is the output for the document with  *)
(* that question taken out, as long as its group stays non-empty.          *)
(***************************************************************************)

\* The document without the i-th question of its n-th group (groups numbered
\* as in Groups).
RemoveAt(seq, i) == [j \in 1..(Len(seq) - 1) |-> IF j < i THEN seq[j] ELSE seq[j + 1]]

WithoutQuestion(c, n, i) ==
    IF n = 1 THEN [c EXCEPT !.opening = RemoveAt(@, i)]
    ELSE IF n <= Len(c.core) + 1
         THEN [c EXCEPT !.core[n - 1].questions = RemoveAt(@, i)]
    ELSE IF n = Len(c.core) + 2 THEN [c EXCEPT !.followUps = RemoveAt(@, i)]
    ELSE [c EXCEPT !.closing = RemoveAt(@, i)]

C6_UntypedSkipped ==
    exported = "txt" =>
        \A n \in DOMAIN Groups(content) :
            LET qs == Groups(content)[n].questions
            IN  \A i \in DOMAIN qs :
                    (~HasType(qs[i]) /\ Len(qs) >= 2)
                        => txtFile = generateQualtricsTxt(WithoutQuestion(content, n, i))

\* A typed question after an untyped one in the same group.
C6_Witness ==
    /\ exported = "txt"
    /\ Len(content.opening) = 2
    /\ ~HasType(content.opening[1])
    /\ IsChoice(content.opening[2])
    /\ MCLine(1, content.opening[2].text) \in Range(txtFile)

(***************************************************************************)
(* C7 as stated: two consecutive empty lines separate the last question of *)
(* a block from the [[Block:...]] line that follows it (documents whose    *)
(* questions all have a type, so that every block ends in a question).     *)
(***************************************************************************)
C7_TwoBlankLinesBeforeMarker ==
    (exported = "txt" /\ \A q \in Range(Flatten(content)) : HasType(q)) =>
        \A p \in DOMAIN txtFile :
            (IsBlockMarker(txtFile[p]) /\ p > 1)
                => (p > 2 /\ txtFile[p - 1] = "" /\ txtFile[p - 2] = "")

(***************************************************************************)
(* C7 as amended: the blank lines of the TXT export are one after every    *)
(* block marker, one between a choice question and its options and one     *)
(* after every emitted question, and no other: nothing is appended after   *)
(* the questions of a block, so the line before a later marker is the      *)
(* blank line that ends the question (or follows the marker) before it.    *)
(***************************************************************************)
C7_BlankLines ==
    exported = "txt" =>
        LET qs == Flatten(content)
            blanks == Len(SelectSeq(txtFile, LAMBDA l : l = ""))
        IN  /\ blanks = Len(NonEmptyGroups(content))
                        + Len(SelectSeq(qs, HasType))
                        + Len(SelectSeq(qs, IsChoice))
            /\ \A p \in DOMAIN txtFile :
                  IsBlockMarker(txtFile[p]) =>
                      /\ p < Len(txtFile) /\ txtFile[p + 1] = ""
                      /\ p > 1 => txtFile[p - 1] = ""
            /\ \A p \in DOMAIN txtFile :
                  (IsTELine(txtFile[p]) /\ p + 2 <= Len(txtFile))
                      => (txtFile[p + 1] = "" /\ txtFile[p + 2] # "")

\* A block ending in a FreeText question and followed by another block: one
\* blank line between the question and the marker.
C7_Witness ==
    /\ exported = "txt"
    /\ Len(content.opening) = 1 /\ IsFreeText(content.opening[1])
    /\ Len(content.closing) = 1
    /\ Len(txtFile) >= 5
    /\ txtFile[3] = TELine(1, content.opening[1].text)
    /\ txtFile[4] = ""
    /\ txtFile[5] = BlockMarker("Closing / Wrap-up")

(***************************************************************************)
(* C5: in the PDF layout addSection on a group without questions draws     *)
(* nothing and leaves y and the page count as they were; a group with      *)
(* questions ends 5 mm below the 2 mm that follow its last question or     *)
(* option list.                                                            *)
(***************************************************************************)
LineHeight(kind) == IF kind = "option" THEN 45 ELSE 50

C5_EmptyGroupLeavesCursor ==
    exported = "pdf" =>
        /\ Len(pdfDoc.calls) = Len(Groups(content))
        /\ \A i \in DOMAIN pdfDoc.calls :
             LET call == pdfDoc.calls[i]
             IN  /\ call.title = Groups(content)[i].label
                 /\ call.questions = Groups(content)[i].questions
                 /\ IF Len(call.questions) = 0
                    THEN /\ call.yAfter = call.yBefore
                         /\ call.pagesAfter = call.pagesBefore
                         /\ call.opsAfter = call.opsBefore
                    ELSE /\ call.opsAfter > call.opsBefore
                         /\ LET last == pdfDoc.ops[call.opsAfter]
                            IN  call.yAfter =
                                  last.y + Len(last.lines) * LineHeight(last.kind)
                                  + 20 + 50

\* An empty group after a drawn one, before another drawn one.
C5_Witness ==
    /\ exported = "pdf"
    /\ Len(content.opening) = 1
    /\ content.followUps = <<>>
    /\ Len(content.closing) = 1
    /\ Len(pdfDoc.ops) >= 5
    /\ \E i \in DOMAIN pdfDoc.calls :
          /\ pdfDoc.calls[i].title = "Follow-ups / Probes"
          /\ pdfDoc.calls[i].yBefore > margin
          /\ pdfDoc.calls[i].yAfter = pdfDoc.calls[i].yBefore

(***************************************************************************)
(* C8: a FreeText question gives no option lines in any of the three       *)
(* renderers, whatever its options field holds.  (The plain-text renderer  *)
(* and the PDF layout write the options of every question that has some.)  *)
(***************************************************************************)
OptionBulletLines == {"  - " \o OptionNames[i] : i \in DOMAIN OptionNames}

IsOptionBullet(l) == l \in OptionBulletLines

C8_FreeTextNoOptionLines ==
    LET teQs == SelectSeq(Flatten(content), IsFreeText)
    IN  /\ exported = "txt" =>
               \A k \in DOMAIN teQs :
                   \A p \in Positions(txtFile, TELine(k, teQs[k].text)) :
                       /\ p < Len(txtFile) /\ txtFile[p + 1] = ""
                       /\ p + 2 <= Len(txtFile)
                              => txtFile[p + 2] \notin Range(OptionNames)
        /\ exported = "clipboard" =>
               \A k \in DOMAIN teQs :
                   \A p \in Positions(clipboard, "- " \o teQs[k].text) :
                       p < Len(clipboard) => ~IsOptionBullet(clipboard[p + 1])
        /\ exported = "pdf" =>
               \A k \in DOMAIN teQs :
                   \A p \in DOMAIN pdfDoc.ops :
                       (/\ pdfDoc.ops[p].kind = "question"
                        /\ pdfDoc.ops[p].lines = <<"- " \o teQs[k].text>>
                        /\ p < Len(pdfDoc.ops))
                           => pdfDoc.ops[p + 1].kind # "option"

(***************************************************************************)
(* C9: every renderer keeps the order of the document: the groups in the   *)
(* order Opening, core sections, Follow-ups, Closing, the questions of a   *)
(* group in input order, the options of a question in input order, nothing *)
(* twice.  What a renderer emits, read in output order, is the document    *)
(* read in document order.                                                 *)
(***************************************************************************)
RECURSIVE Concat(_)
Concat(seqs) == IF seqs = <<>> THEN <<>> ELSE Head(seqs) \o Concat(Tail(seqs))

Map(seq, Op(_)) == [i \in DOMAIN seq |-> Op(seq[i])]

\* The question text a numbered line of the TXT export carries; any other
\* line as it is.
TextOfLine ==
    [l \in MCLines \cup TELines |->
        CHOOSE t \in QuestionTexts :
            \E n \in Numbers : l = MCLine(n, t) \/ l = TELine(n, t)]

TxtItem(l) == IF IsMCLine(l) \/ IsTELine(l) THEN TextOfLine[l] ELSE l

TxtItemsInOrder(c) ==
    Concat(Map(NonEmptyGroups(c), LAMBDA g :
        <<BlockMarker(g.label)>>
        \o Concat(Map(SelectSeq(g.questions, HasType), LAMBDA q :
               <<q.text>> \o (IF IsChoice(q) THEN OptionsOrNone(q) ELSE <<>>)))))

ClipboardItemsInOrder(c) ==
    Concat(Map(Groups(c), LAMBDA g :
        <<"## " \o g.label>>
        \o Concat(Map(g.questions, LAMBDA q :
               <<"- " \o q.text>>
               \o Map(OptionsOrNone(q), LAMBDA o : "  - " \o o)))))

PdfItemsInOrder(c) ==
    Concat(Map(NonEmptyGroups(c), LAMBDA g :
        <<<<"heading", g.label>>>>
        \o Concat(Map(g.questions, LAMBDA q :
               <<<<"question", "- " \o q.text>>>>
               \o Map(OptionsOrNone(q), LAMBDA o : <<"option", "    * " \o o>>)))))

QuestionBulletLines == {"- " \o t : t \in QuestionTexts}

IsQuestionBullet(l) == l \in QuestionBulletLines

CoreHeadingLines ==
    {"## Core Questions: " \o Topic(s) : s \in 1..(MaxSections + 1)}

IsCoreHeading(l) == l \in CoreHeadingLines

C10_PlainTextQuestionLines ==
    exported = "clipboard" =>
        LET qs == Flatten(content)
        IN  /\ Len(SelectSeq(clipboard, IsQuestionBullet)) = Len(qs)
            /\ \A k \in DOMAIN qs :
                 LET opts == OptionsOrNone(qs[k])
                     at == Positions(clipboard, "- " \o qs[k].text)
                 IN  /\ Cardinality(at) = 1
                     /\ \A p \in at :
                          /\ Len(clipboard) >= p + Len(opts)
                          /\ \A j \in DOMAIN opts :
                                 clipboard[p + j] = "  - " \o opts[j]
                          /\ p + Len(opts) < Len(clipboard)
                                 => ~IsOptionBullet(clipboard[p + Len(opts) + 1])
            /\ SelectSeq(clipboard, IsCoreHeading)
                 = [s \in 1..Len(content.core) |->
                       "## Core Questions: " \o content.core[s].topic]

\* A question with neither type nor options next to one with options, in a
\* core section.
C10_Witness ==
    /\ exported = "clipboard"
    /\ Len(content.core) = 1
    /\ Len(content.core[1].questions) = 2
    /\ ~HasType(content.core[1].questions[1])
    /\ ~HasOptions(content.core[1].questions[1])
    /\ Len(OptionsOrNone(content.core[1].questions[2])) >= 2
    /\ ("- " \o content.core[1].questions[1].text) \in Range(clipboard)
    /\ "## Core Questions: Topic1" \in Range(clipboard)

(***************************************************************************)
(* Vocabulary of the page layout: what a drawn block needs, how far the    *)
(* cursor moves after it, and where the cursor stands before the next one. *)
(***************************************************************************)
BottomLimit == pageHeight - margin

\* The height tested before a block is drawn.
Needed(op) ==
    CASE op.kind = "title"    -> Len(op.lines) * 80
      [] op.kind = "heading"  -> Len(op.lines) * 70 + 80
      [] op.kind = "question" -> Len(op.lines) * 50 + 20
      [] op.kind = "option"   -> Len(op.lines) * 45

\* The height of the lines of a block.
Extent(op) ==
    CASE op.kind = "title"    -> Len(op.lines) * 80
      [] op.kind = "heading"  -> Len(op.lines) * 70
      [] op.kind = "question" -> Len(op.lines) * 50
      [] op.kind = "option"   -> Len(op.lines) * 45

\* The cursor moves by this much when a block has been drawn.
Advance(op) ==
    CASE op.kind = "title"    -> Len(op.lines) * 80 + 100
      [] op.kind = "heading"  -> Len(op.lines) * 70 + 40
      [] op.kind = "question" -> Len(op.lines) * 50 + 20
      [] op.kind = "option"   -> Len(op.lines) * 45

\* The spacing between two blocks drawn one after the other: 2 mm after an
\* option list, 5 mm after a group.
Gap(prev, op) ==
    (IF prev.kind = "option" /\ op.kind # "option" THEN 20 ELSE 0)
    + (IF op.kind = "heading" /\ prev.kind \in {"question", "option"}
       THEN 50 ELSE 0)

\* The cursor and the page when the page-break test of the i-th block is made.
CursorBefore(ops, i) ==
    IF i = 1 THEN [y |-> margin, page |-> 1]
    ELSE [y |-> ops[i - 1].y + Advance(ops[i - 1]) + Gap(ops[i - 1], ops[i]),
          page |-> ops[i - 1].page]

FirstOnPage(ops, i) == i = 1 \/ ops[i - 1].page < ops[i].page

(***************************************************************************)
(* C11: the page-break rule precedes every drawn block (title, heading,    *)
(* question, option): a page is added and y set to margin exactly when     *)
(* y + needed > pageHeight - margin, with needed = n*8, n*7+8, n*5+2,      *)
(* n*4.5 mm; so a block of n lines drawn at y ends within the bottom       *)
(* margin or is the first block of a fresh page, at y = margin.            *)
(***************************************************************************)
C11_PageBreakBeforeEveryBlock ==
    exported = "pdf" =>
        \A i \in DOMAIN pdfDoc.ops :
            LET op == pdfDoc.ops[i]
                before == CursorBefore(pdfDoc.ops, i)
            IN  /\ IF before.y + Needed(op) > BottomLimit
                   THEN op.page = before.page + 1 /\ op.y = margin
                   ELSE op.page = before.page /\ op.y = before.y
                /\ \/ op.y + Extent(op) <= BottomLimit
                   \/ op.y = margin /\ FirstOnPage(pdfDoc.ops, i)

\* A heading, a question and an option each moved to a fresh page somewhere,
\* here: a question drawn first on page 2.
C11_Witness ==
    /\ exported = "pdf"
    /\ \E i \in DOMAIN pdfDoc.ops :
          /\ pdfDoc.ops[i].kind = "question"
          /\ pdfDoc.ops[i].page = 2
          /\ pdfDoc.ops[i].y = margin
          /\ i > 1 /\ pdfDoc.ops[i - 1].page = 1
          /\ CursorBefore(pdfDoc.ops, i).y <= BottomLimit

(***************************************************************************)
(* C19: the options of a question are not kept together: every option has  *)
(* its own page-break test, so an option goes to a new page exactly when   *)
(* it alone does not fit under the block before it, and there are          *)
(* documents whose question and first option, or two consecutive options,  *)
(* are on different pages.                                                 *)
(***************************************************************************)
C19_OptionsBreakOneByOne ==
    exported = "pdf" =>
        \A i \in DOMAIN pdfDoc.ops :
            (i > 1 /\ pdfDoc.ops[i].kind = "option") =>
                LET op == pdfDoc.ops[i]
                    prev == pdfDoc.ops[i - 1]
                IN  /\ prev.kind \in {"question", "option"}
                    /\ (op.page # prev.page)
                         <=> (prev.y + Advance(prev) + Len(op.lines) * 45
                                > BottomLimit)

\* A question on page 1 with its first option on page 2, and two consecutive
\* options of one question on different pages.
C19_Witness ==
    /\ exported = "pdf"
    /\ \E i \in DOMAIN pdfDoc.ops :
          /\ i > 1
          /\ pdfDoc.ops[i].kind = "option"
          /\ pdfDoc.ops[i - 1].kind = "question"
          /\ pdfDoc.ops[i].page = pdfDoc.ops[i - 1].page + 1
    /\ \E i \in DOMAIN pdfDoc.ops :
          /\ i > 1
          /\ pdfDoc.ops[i].kind = "option"
          /\ pdfDoc.ops[i - 1].kind = "option"
          /\ pdfDoc.ops[i].page = pdfDoc.ops[i - 1].page + 1

(***************************************************************************)
(* C20: the cursor starts at y = margin on page 1 and the title is the     *)
(* first block, drawn there with no page break before it; the page number  *)
(* never goes down; y is margin exactly where a page was added (and at the *)
(* title) and grows otherwise; no block is drawn above the margin.         *)
(***************************************************************************)
C20_CursorAndPages ==
    exported = "pdf" =>
        LET ops == pdfDoc.ops
        IN  /\ Len(ops) >= 1
            /\ ops[1].kind = "title" /\ ops[1].page = 1 /\ ops[1].y = margin
            /\ \A i \in DOMAIN ops :
                 /\ ops[i].y >= margin
                 /\ i > 1 => ops[i].kind # "title"
                 /\ i > 1 =>
                      \/ /\ ops[i].page = ops[i - 1].page + 1
                         /\ ops[i].y = margin
                      \/ /\ ops[i].page = ops[i - 1].page
                         /\ ops[i].y > ops[i - 1].y
            /\ pdfDoc.pages = ops[Len(ops)].page
            /\ pdfDoc.y > ops[Len(ops)].y

\* Three pages: the page was added twice.
C20_Witness ==
    /\ exported = "pdf"
    /\ pdfDoc.pages = 3
    /\ \E i \in DOMAIN pdfDoc.ops :
          pdfDoc.ops[i].page = 2 /\ pdfDoc.ops[i].y > margin

(***************************************************************************)
(* Vocabulary of the App properties.                                       *)
(***************************************************************************)
IsDocumentReply(reply) == reply.kind = "text" /\ reply.json \in ServiceDocs

\* The document c is the parsed response json, with or without the
\* isQuestionnaire mark the service adds.
IsResponse(c, json) ==
    /\ DOMAIN json \subseteq DOMAIN c
    /\ DOMAIN c \subseteq DOMAIN json \cup {"isQuestionnaire"}
    /\ \A f \in DOMAIN json : c[f] = json[f]

Settled == lastOp.kind \in {"generated", "refined"}

(***************************************************************************)
(* C12: generateQuestionnaire and refineQuestionnaire fail in two ways the *)
(* caller can tell apart: a parsed response without opening, core,         *)
(* followUps or closing gives the caller the malformed-response error      *)
(* ("Received malformed content from AI..."), a failed network call gives  *)
(* the generic failure error; a response with all four groups is returned. *)
(***************************************************************************)
C12_MalformedAndGenericErrors ==
    Settled =>
        /\ (lastOp.reply.kind = "text" /\ lastOp.reply.json = MalformedDoc) =>
              error = (IF lastOp.kind = "generated"
                       THEN "Received malformed content from AI. Missing required sections."
                       ELSE "Received malformed content from AI during refinement. Missing required sections.")
        /\ (lastOp.reply.kind = "rejected"
              /\ lastOp.reply.message = "fetch failed") =>
              error = (IF lastOp.kind = "generated"
                       THEN "Failed to generate content. The AI model may be temporarily unavailable."
                       ELSE "Failed to refine content. The AI model may be temporarily unavailable.")
        /\ IsDocumentReply(lastOp.reply) => IsResponse(content, lastOp.reply.json)

(***************************************************************************)
(* C13: updateQuestionText(section, id, newText, coreIndex) gives a        *)
(* document that differs from the one before only in the text of the       *)
(* first question with that id in the addressed group or core section:     *)
(* ids, types, options, topics, the order of every list, isQuestionnaire   *)
(* and all other texts are as before, and an id that matches no question   *)
(* of the addressed group leaves the document equal to the one before.     *)
(***************************************************************************)
Addressed(c, op) ==
    IF op.section = "core" THEN c.core[op.coreIndex].questions
    ELSE c[op.section]

FirstMatch(questions, id) ==
    IF \E j \in DOMAIN questions : questions[j].id = id
    THEN CHOOSE j \in DOMAIN questions :
            /\ questions[j].id = id
            /\ \A k \in 1..(j - 1) : questions[k].id # id
    ELSE 0

C13_EditChangesOneText ==
    lastOp.kind = "edit" =>
        LET before == lastOp.before
            old == Addressed(before, lastOp)
            new == Addressed(content, lastOp)
            m == FirstMatch(old, lastOp.id)
        IN  /\ DOMAIN content = DOMAIN before
            /\ \A f \in DOMAIN before \ {lastOp.section} : content[f] = before[f]
            /\ Len(content.core) = Len(before.core)
            /\ \A s \in DOMAIN before.core :
                  /\ content.core[s].topic = before.core[s].topic
                  /\ (lastOp.section = "core" /\ s = lastOp.coreIndex)
                       \/ content.core[s] = before.core[s]
            /\ Len(new) = Len(old)
            /\ \A j \in DOMAIN old :
                  new[j] = IF j = m THEN [old[j] EXCEPT !.text = lastOp.newText]
                           ELSE old[j]
            /\ m = 0 => content = before

\* The first of two opening questions with the same id was edited; and an
\* edit addressed to a group without the id changed nothing.
C13_Witness ==
    /\ lastOp.kind = "edit"
    /\ lastOp.section = "opening"
    /\ Len(content.opening) = 2
    /\ content.opening[1].id = content.opening[2].id
    /\ content.opening[1].text = "Edited"
    /\ lastOp.before.opening[1].text # "Edited"
    /\ content.opening[2].text # "Edited"

(***************************************************************************)
(* C14: the last write to the document wins.  When a request settles with  *)
(* a document, the current document becomes exactly that response, also    *)
(* when the user edited a text while the refinement ran (the edit is not   *)
(* merged); when it settles with a failure, the document that was current, *)
(* edits included, stays.                                                  *)
(***************************************************************************)
C14_LastWriteWins ==
    Settled =>
        IF IsDocumentReply(lastOp.reply)
        THEN IsResponse(content, lastOp.reply.json)
        ELSE content = lastOp.before

HasEditedText(c) ==
    /\ c # NoContent
    /\ \E j \in DOMAIN c.opening : c.opening[j].text = "Edited"

\* A refinement settled with a document after the user had edited the
\* opening question while it ran; the edit is gone.
C14_Witness ==
    /\ lastOp.kind = "refined"
    /\ lastOp.editedMeanwhile
    /\ HasEditedText(lastOp.before)
    /\ IsDocumentReply(lastOp.reply)
    /\ ~HasEditedText(content)
    /\ ~isRefining

(***************************************************************************)
(* C15: the TXT export can be invoked only on a questionnaire: wherever    *)
(* the document is absent or has no isQuestionnaire = true, the export     *)
(* action is not available, and every TXT export made was made of a        *)
(* questionnaire.                                                          *)
(***************************************************************************)
C15_TxtExportOnlyForQuestionnaire ==
    /\ (ENABLED HandleExportTxt) =>
          (content # NoContent /\ IsQuestionnaire(content))
    /\ lastOp.kind = "exportTxt" =>
          (exported = "txt" /\ IsQuestionnaire(content))

\* A questionnaire was exported as TXT while the form names an interview.
C15_Witness ==
    /\ lastOp.kind = "exportTxt"
    /\ exported = "txt"
    /\ IsQuestionnaire(content)
    /\ formData.researchType = "Generative Interview"

(***************************************************************************)
(* C17: no renderer changes the document it renders: after a TXT export,   *)
(* a copy to the clipboard or a PDF export the document, with every field  *)
(* of it, is the one before, and generatedContent was not replaced.        *)
(***************************************************************************)
C17_ExportsLeaveDocument ==
    lastOp.kind \in {"exportTxt", "copy", "exportPdf"} =>
        /\ content = lastOp.before
        /\ content # NoContent
        /\ exported # "none"

\* An edited document was exported as PDF.
C17_Witness ==
    /\ lastOp.kind = "exportPdf"
    /\ HasEditedText(content)
    /\ Len(pdfDoc.ops) > 1

(***************************************************************************)
(* C18: the renderers run to completion on every document with its four    *)
(* groups, whatever questions have a type or options: absent options are   *)
(* rendered as an empty option list, an absent type is skipped by the TXT  *)
(* export and makes no difference to the plain text and the PDF.           *)
(***************************************************************************)
MapQuestions(c, Op(_)) ==
    LET core == [s \in DOMAIN c.core |->
                    [topic |-> c.core[s].topic,
                     questions |-> Map(c.core[s].questions, Op)]]
    IN  [c EXCEPT !.opening = Map(@, Op),
                  !.core = core,
                  !.followUps = Map(@, Op),
                  !.closing = Map(@, Op)]

EmptyOptionsIfAbsent(q) ==
    IF HasOptions(q) THEN q
    ELSE [f \in DOMAIN q \cup {"options"} |->
             IF f = "options" THEN <<>> ELSE q[f]]

Untyped(q) == [f \in DOMAIN q \ {"type"} |-> q[f]]

DrawnPdf(c) ==
    LET pdf == PdfLayout(c) IN <<pdf.ops, pdf.y, pdf.pages>>

C18_AbsentFieldsTolerated ==
    LET filled == MapQuestions(content, EmptyOptionsIfAbsent)
        untyped == MapQuestions(content, Untyped)
    IN  /\ exported = "txt" =>
              /\ txtFile = generateQualtricsTxt(filled)
              /\ \A l \in Range(txtFile) : l # "undefined"
        /\ exported = "clipboard" =>
              /\ clipboard = formatContentAsText(filled)
              /\ clipboard = formatContentAsText(untyped)
        /\ exported = "pdf" =>
              /\ <<pdfDoc.ops, pdfDoc.y, pdfDoc.pages>> = DrawnPdf(filled)
              /\ <<pdfDoc.ops, pdfDoc.y, pdfDoc.pages>> = DrawnPdf(untyped)

\* A questionnaire with a question without a type and a choice question
\* without options was exported as TXT.
C18_Witness ==
    /\ exported = "txt"
    /\ \E q \in Range(Flatten(content)) : ~HasType(q)
    /\ \E q \in Range(Flatten(content)) :
          HasType(q) /\ q.type = "SingleChoice" /\ ~HasOptions(q)

(***************************************************************************)
(* C21: whatever images are added and removed, several files at once and   *)
(* the readers finishing in any order, no two attached images come from    *)
(* the same file name.                                                     *)
(***************************************************************************)
C21_NoTwoImagesOfOneFile ==
    \A i, j \in DOMAIN formData.productImages :
        i # j => formData.productImages[i].file # formData.productImages[j].file

(***************************************************************************)
(* C25: at most one request that replaces the document is in flight: no    *)
(* generation or tone adjustment starts while a refinement is pending, no  *)
(* refinement starts while a generation or tone adjustment is pending,     *)
(* and no second request of a kind starts while one of that kind is        *)
(* pending.                                                                *)
(***************************************************************************)
C25_OneRequestInFlight == BagCardinality(inFlight) <= 1

(***************************************************************************)
(* C22: handleGenerate clears the document and the error before the        *)
(* request is made; when the request has failed the document is still      *)
(* null and error holds the failure's message, when it has succeeded the   *)
(* document is the response and error is null; in both cases isLoading is  *)
(* false afterwards.                                                       *)
(***************************************************************************)
C22_GenerateOutcome ==
    /\ lastOp.kind \in {"generate", "toneAdjust"} =>
          content = NoContent /\ error = NoError /\ isLoading
    /\ lastOp.kind = "generated" =>
          /\ ~isLoading
          /\ IF IsDocumentReply(lastOp.reply)
             THEN IsResponse(content, lastOp.reply.json) /\ error = NoError
             ELSE /\ content = NoContent
                  /\ error = generateQuestionnaire(
                                 [researchType |-> lastOp.researchType],
                                 lastOp.reply).message

(***************************************************************************)
(* C23: a refinement that failed leaves the document as it was when the    *)
(* refinement was asked for, apart from the texts the user edited since,   *)
(* sets error and ends with isRefining false; one that succeeded replaces  *)
(* the document by the response.                                           *)
(***************************************************************************)
NoText(q) == [q EXCEPT !.text = ""]

SameApartFromTexts(c, d) ==
    /\ c # NoContent
    /\ d # NoContent
    /\ MapQuestions(c, NoText) = MapQuestions(d, NoText)

C23_RefineOutcome ==
    lastOp.kind = "refined" =>
        /\ ~isRefining
        /\ IF IsDocumentReply(lastOp.reply)
           THEN IsResponse(content, lastOp.reply.json)
           ELSE /\ SameApartFromTexts(content, lastOp.currentContent)
                /\ error # NoError

(***************************************************************************)
(* C26: the document generateQuestionnaire returns has isQuestionnaire =   *)
(* true exactly when the research type of the request contains             *)
(* "questionnaire" in any letter case; the document refineQuestionnaire    *)
(* returns has it whenever the document that was refined had it, whatever  *)
(* the research type of the form is by then.                               *)
(***************************************************************************)
C26_IsQuestionnaireDerivation ==
    /\ (lastOp.kind = "generated" /\ IsDocumentReply(lastOp.reply)) =>
          (IsQuestionnaire(content) <=> lastOp.researchType = "Questionnaire")
    /\ (lastOp.kind = "refined" /\ IsDocumentReply(lastOp.reply)) =>
          (IsQuestionnaire(lastOp.currentContent) => IsQuestionnaire(content))

\* A questionnaire was refined after the form's research type had been
\* changed to an interview; the refined document is a questionnaire.
C26_Witness ==
    /\ lastOp.kind = "refined"
    /\ IsDocumentReply(lastOp.reply)
    /\ IsQuestionnaire(lastOp.currentContent)
    /\ lastOp.researchType = "Generative Interview"
    /\ IsQuestionnaire(content)

(***************************************************************************)
(* C27: handleSend does nothing when the input is empty or blank or a send *)
(* is pending; otherwise it appends exactly one user message and, when the *)
(* send completes, exactly one model message, the reply or the fixed       *)
(* apology (also when the chat was never initialized).  With no send       *)
(* pending the list is one opening model message followed by user and      *)
(* model messages in strict alternation, and no step removes or reorders   *)
(* a message.                                                              *)
(***************************************************************************)
IsPrefixOf(a, b) == Len(a) <= Len(b) /\ SubSeq(b, 1, Len(a)) = a

Alternating(list) ==
    \A i \in DOMAIN list :
        list[i].role = IF i % 2 = 1 THEN "model" ELSE "user"

ChatKinds == {"toggle", "chatInput", "send", "reply"}

C27_ChatMessages ==
    /\ (lastOp.kind = "send" /\ ~lastOp.sent) => messages = lastOp.before
    /\ (lastOp.kind = "send" /\ lastOp.sent) =>
          LET userMessage == [role |-> "user", text |-> lastOp.text]
          IN  IF chatIsLoading
              THEN messages = Append(lastOp.before, userMessage)
              ELSE messages =
                      lastOp.before \o <<userMessage, SomethingWentWrong>>
    /\ lastOp.kind = "reply" =>
          /\ Len(messages) = Len(lastOp.before) + 1
          /\ messages[Len(messages)].role = "model"
    /\ ~chatIsLoading => Alternating(messages)
    /\ lastOp.kind \in ChatKinds => IsPrefixOf(lastOp.before, messages)

(***************************************************************************)
(* C24: every busy flag that is set is cleared eventually (isLoading,      *)
(* isRefining, isToneAdjusting, the chat's isLoading), whether the call    *)
(* succeeds or fails, provided every call eventually resolves or rejects.  *)
(***************************************************************************)
C24_BusyFlagsCleared ==
    /\ isLoading ~> ~isLoading
    /\ isRefining ~> ~isRefining
    /\ (isToneAdjusting # "") ~> (isToneAdjusting = "")
    /\ chatIsLoading ~> ~chatIsLoading

\* A chat send was rejected after a generation had failed; no flag is set.
C24_Witness ==
    /\ lastOp.kind = "reply"
    /\ lastOp.reply.kind = "rejected"
    /\ error # NoError
    /\ ~chatIsLoading
    /\ ~isLoading /\ ~isRefining /\ isToneAdjusting = ""

====
